---- MODULE Spec2Model ----
(***************************************************************************)
(* HUB75 LED-matrix driver (src/lib.rs): the framebuffer, the pixel-write   *)
(* adapter (DrawTarget) and the two output strategies (threshold PWM and    *)
(* binary code modulation) writing 16-bit words to a parallel port.         *)
(***************************************************************************)
EXTENDS Integers, Sequences, FiniteSets, TLC

(* ------------------------------------------------------------------ *)
(* Bounds of the model                                                  *)
(* ------------------------------------------------------------------ *)
\* number of API calls made on one engine after construction
MaxCalls == 2
\* longest pixel sequence handed to draw_iter
MaxIter == 2
\* ROW_LENGTH (const generic) used for the non-multiplexed builds
PlainRowLength == 4
\* ROW_LENGTH (const generic) used for the stripe-multiplexed builds
MaxStripes == 3
StripeRowLength == 128

(* ------------------------------------------------------------------ *)
(* Program constants                                                    *)
(* ------------------------------------------------------------------ *)
GAMMA8 ==
    << 0, 0, 0, 0, 0, 0, 0, 0, 0, 0, 0, 0, 0, 0, 0, 0,
       0, 0, 0, 0, 0, 0, 0, 0, 0, 0, 0, 0, 1, 1, 1, 1,
       1, 1, 1, 1, 1, 1, 1, 1, 1, 2, 2, 2, 2, 2, 2, 2,
       2, 3, 3, 3, 3, 3, 3, 3, 4, 4, 4, 4, 4, 5, 5, 5,
       5, 6, 6, 6, 6, 7, 7, 7, 7, 8, 8, 8, 9, 9, 9, 10,
       10, 10, 11, 11, 11, 12, 12, 13, 13, 13, 14, 14, 15, 15, 16, 16,
       17, 17, 18, 18, 19, 19, 20, 20, 21, 21, 22, 22, 23, 24, 24, 25,
       25, 26, 27, 27, 28, 29, 29, 30, 31, 32, 32, 33, 34, 35, 35, 36,
       37, 38, 39, 39, 40, 41, 42, 43, 44, 45, 46, 47, 48, 49, 50, 50,
       51, 52, 54, 55, 56, 57, 58, 59, 60, 61, 62, 63, 64, 66, 67, 68,
       69, 70, 72, 73, 74, 75, 77, 78, 79, 81, 82, 83, 85, 86, 87, 89,
       90, 92, 93, 95, 96, 98, 99, 101, 102, 104, 105, 107, 109, 110, 112, 114,
       115, 117, 119, 120, 122, 124, 126, 127, 129, 131, 133, 135, 137, 138, 140, 142,
       144, 146, 148, 150, 152, 154, 156, 158, 160, 162, 164, 167, 169, 171, 173, 175,
       177, 180, 182, 184, 186, 189, 191, 193, 196, 198, 200, 203, 205, 208, 210, 213,
       215, 218, 220, 223, 225, 228, 231, 233, 236, 239, 241, 244, 247, 249, 252, 255 >>

\* the correction applied to an already corrected value
GammaTwice(v) == GAMMA8[GAMMA8[v + 1] + 1]

\* the raw channel value stored without correction
GammaRaw(v) == v

\* GAMMA8[v as usize]: Rust arrays are indexed from 0
Gamma(v) == GAMMA8[v + 1]

\* bit positions of the signals in the port word (const generic PIN_POS)
PIN_POS ==
    [r1 |-> 0, g1 |-> 1, b1 |-> 2, r2 |-> 3, g2 |-> 4, b2 |-> 5,
     a |-> 6, b |-> 7, c |-> 8, clock |-> 9, latch |-> 10, oe |-> 11]

\* Self::PINS: one mask per signal, 1 << PIN_POS.signal
PINS == [s \in DOMAIN PIN_POS |-> 2 ^ PIN_POS[s]]

\* width of one physical stripe in the stripe-multiplexed mapping
StripeWidth == 32
\* last logical row stored into the top half (fields 0-2) of a cell
TopHalfLastRow == 15

U8Max == 2 ^ 8 - 1
I32Max == (2 ^ 30 - 1) + 2 ^ 30
I32Min == (-2147483647) - 1

VARIABLES
    size_64x64,           \* feature "size-64x64"
    stripe_multiplexing,  \* feature "stripe-multiplexing"
    ROW_LENGTH,           \* const generic ROW_LENGTH
    engine,               \* "none" before new, "built" after, "failed" if new panicked
    panicked,             \* a panic has unwound the program
    data,                 \* Hub75.data
    brightness_step,      \* Hub75.brightness_step
    brightness_count,     \* Hub75.brightness_count
    brightness_bits,      \* Hub75.brightness_bits
    output_port,          \* *output_port: the word last written to the port
    written,              \* some word has been written to the port
    pc,                   \* "idle", or the cycle in progress: "output", "output_bcm"
    iter,                 \* loop variable of the cycle in progress
    delay_base_us,        \* argument of the output_bcm call in progress
    thresholds,           \* thresholds passed to output_single by the current output call
    planes,               \* bit positions passed to output_single_bcm by the current output_bcm call
    dwells,               \* delays requested by the current output_bcm call after each plane
    trace,                \* port words written by the latest full-frame pass, in order
    lastCall,             \* the latest API call and its arguments
    calls                 \* number of API calls made after construction

vars == << size_64x64, stripe_multiplexing, ROW_LENGTH, engine, panicked, data,
           brightness_step, brightness_count, brightness_bits, output_port,
           written, pc, iter, delay_base_us, thresholds, planes, dwells,
           trace, lastCall, calls >>

build == << size_64x64, stripe_multiplexing, ROW_LENGTH >>
fields == << brightness_step, brightness_count, brightness_bits >>
cycle == << pc, iter, delay_base_us, thresholds, planes, dwells >>

(* ------------------------------------------------------------------ *)
(* Build configuration                                                  *)
(* ------------------------------------------------------------------ *)
NUM_ROWS == IF size_64x64 THEN 32 ELSE 16

\* number of rows of Hub75.data
DataRows == IF stripe_multiplexing THEN NUM_ROWS \div 2 ELSE NUM_ROWS

\* DrawTarget::size
size ==
    [width  |-> IF stripe_multiplexing THEN ROW_LENGTH \div 2 ELSE ROW_LENGTH,
     height |-> NUM_ROWS * 2]

ZeroCell == << 0, 0, 0, 0, 0, 0 >>

ZeroData == [r \in 0 .. DataRows - 1 |-> [c \in 0 .. ROW_LENGTH - 1 |-> ZeroCell]]

(* ------------------------------------------------------------------ *)
(* Inputs                                                               *)
(* ------------------------------------------------------------------ *)
Colors == { << 255, 128, 7 >>, << 64, 0, 200 >> }

Pixel(coord, color) == [coord |-> coord, color |-> color]

\* pixels inside the logical panel (in one build or another) and outside
\* it on every side
Pixels ==
    { Pixel(<< 3, 5 >>, << 255, 128, 7 >>),
      Pixel(<< 3, 20 >>, << 255, 128, 7 >>),
      Pixel(<< 3, 20 >>, << 64, 0, 200 >>),
      Pixel(<< 3, 52 >>, << 64, 0, 200 >>),
      Pixel(<< 40, 5 >>, << 255, 128, 7 >>),
      Pixel(<< 40, 12 >>, << 64, 0, 200 >>),
      Pixel(<< size.width - 1, size.height - 1 >>, << 255, 128, 7 >>),
      Pixel(<< -1, 5 >>, << 255, 128, 7 >>),
      Pixel(<< 3, -1 >>, << 255, 128, 7 >>),
      Pixel(<< size.width, 5 >>, << 255, 128, 7 >>),
      Pixel(<< 3, size.height >>, << 255, 128, 7 >>),
      Pixel(<< I32Min, I32Min >>, << 64, 0, 200 >>),
      Pixel(<< I32Max, I32Max >>, << 64, 0, 200 >>) }

IterPixels ==
    { Pixel(<< -1, 5 >>, << 255, 128, 7 >>),
      Pixel(<< 3, 20 >>, << 64, 0, 200 >>) }

IterInputs == UNION { [1 .. n -> IterPixels] : n \in 0 .. MaxIter }

\* brightness_bits handed to new where every value is explored
AllBits == 0 .. 2 ^ 8 - 1

\* brightness_bits handed to new where the framebuffer and single passes
\* are explored (neither reads the brightness fields)
SomeBits == { 0, 3, 9 }

\* thresholds handed to output_single directly
Brightnesses == { 37, 255 }

\* bit positions handed to output_single_bcm directly
Bits == { 0, 5 }

\* base dwell times handed to output_bcm
DelayBases == { 1, 2, 255 }

(* ------------------------------------------------------------------ *)
(* Construction                                                         *)
(* ------------------------------------------------------------------ *)
\* the assertion without its lower bound
NewAcceptsNoLowerBound(b) == b < 9

\* assert!(brightness_bits < 9 && brightness_bits > 0)
NewAccepts(b) == b < 9 /\ b > 0

\* 1 << (8 - brightness_bits), a u8
BrightnessStep(b) == 2 ^ (8 - b)

\* ((1 << brightness_bits as u16) - 1) as u8
BrightnessCount(b) == (2 ^ b - 1) % 256

(* ------------------------------------------------------------------ *)
(* Pixel-write adapter                                                  *)
(* ------------------------------------------------------------------ *)
\* the three assignments of one branch of draw_pixel, with the bounds check
\* of the array index self.data[row][column]
StoreHalf(d, row, column, bottom, color) ==
    IF row >= DataRows \/ column >= ROW_LENGTH
    THEN [panic |-> TRUE, data |-> d]
    ELSE [panic |-> FALSE,
          data |-> [d EXCEPT ![row][column] =
                      IF bottom
                      THEN << @[1], @[2], @[3],
                              Gamma(color[1]), Gamma(color[2]), Gamma(color[3]) >>
                      ELSE << Gamma(color[1]), Gamma(color[2]), Gamma(color[3]),
                              @[4], @[5], @[6] >>]]

\* the early return with the column bound off by one
PlainOutsideOffByOne(column, row) ==
    column < 0 \/ column > ROW_LENGTH \/ row < 0 \/ row >= NUM_ROWS * 2

\* non-multiplexed draw_pixel: the early return
PlainOutside(column, row) ==
    column < 0 \/ column >= ROW_LENGTH \/ row < 0 \/ row >= NUM_ROWS * 2

\* row as usize % NUM_ROWS
PlainRow(row) == row % NUM_ROWS

\* if row > 15 { fields 3-5 } else { fields 0-2 }
PlainBottom(row) == row > TopHalfLastRow

DrawPixelPlain(d, coord, color) ==
    LET column == coord[1]
        row == coord[2]
    IN  IF PlainOutside(column, row)
        THEN [panic |-> FALSE, data |-> d]
        ELSE StoreHalf(d, PlainRow(row), column, PlainBottom(row), color)

\* v as usize on a 32-bit target, kept as two 16-bit halves
AsUsize(v) ==
    IF v >= 0
    THEN [hi |-> v \div 65536, lo |-> v % 65536]
    ELSE LET r == (v + I32Max) + 1
         IN  [hi |-> 32768 + (r \div 65536), lo |-> r % 65536]

\* u >= n for a usize u and a bound n below 2^16
UsizeGe(u, n) == u.hi > 0 \/ u.lo >= n

\* stripe-multiplexed draw_pixel: the early return (x < 0 and y < 0 are
\* comparisons of a usize and never hold)
StripeOutside(x, y) == UsizeGe(x, ROW_LENGTH \div 2) \/ UsizeGe(y, NUM_ROWS * 2)

\* is_top_stripe
IsTopStripe(y) == (y % NUM_ROWS) < NUM_ROWS \div 2

\* the column without the shift of the top stripe
StripeColumnNoTopShift(x, y) == x + (x \div StripeWidth) * StripeWidth

\* column: x + screen_offset * 32, plus 32 in a top stripe
StripeColumn(x, y) ==
    LET screen_offset == x \div StripeWidth
        x1 == x + screen_offset * StripeWidth
    IN  IF IsTopStripe(y) THEN x1 + StripeWidth ELSE x1

\* row: y % (NUM_ROWS / 2)
StripeRow(y) == y % (NUM_ROWS \div 2)

\* if y > 15 { fields 3-5 } else { fields 0-2 }
StripeBottom(y) == y > TopHalfLastRow

DrawPixelStripe(d, coord, color) ==
    LET x == AsUsize(coord[1])
        y == AsUsize(coord[2])
    IN  IF StripeOutside(x, y)
        THEN [panic |-> FALSE, data |-> d]
        ELSE StoreHalf(d, StripeRow(y.lo), StripeColumn(x.lo, y.lo),
                       StripeBottom(y.lo), color)

\* draw_pixel of the build in use
DrawPixelResult(d, coord, color) ==
    IF stripe_multiplexing
    THEN DrawPixelStripe(d, coord, color)
    ELSE DrawPixelPlain(d, coord, color)

\* draw_iter: draw_pixel(pixel).unwrap() for every pixel, in order
RECURSIVE DrawIterResult(_, _)
DrawIterResult(d, pixels) ==
    IF pixels = << >>
    THEN [panic |-> FALSE, data |-> d]
    ELSE LET first == DrawPixelResult(d, Head(pixels).coord, Head(pixels).color)
         IN  IF first.panic THEN first ELSE DrawIterResult(first.data, Tail(pixels))

\* the cell with fields 0-2 zeroed
WithTopZero(cell) == << 0, 0, 0, cell[4], cell[5], cell[6] >>

\* clear storing the colour into the top half only
ClearResultTopOnly(color) ==
    [r \in 0 .. DataRows - 1 |-> [c \in 0 .. ROW_LENGTH - 1 |->
        << Gamma(color[1]), Gamma(color[2]), Gamma(color[3]), 0, 0, 0 >>]]

\* clear(color)
ClearResult(color) ==
    [r \in 0 .. DataRows - 1 |-> [c \in 0 .. ROW_LENGTH - 1 |->
        << Gamma(color[1]), Gamma(color[2]), Gamma(color[3]),
           Gamma(color[1]), Gamma(color[2]), Gamma(color[3]) >>]]

\* clear_display zeroing the top half only
ClearDisplayTopOnly ==
    [r \in 0 .. DataRows - 1 |-> [c \in 0 .. ROW_LENGTH - 1 |->
        WithTopZero(data[r][c])]]

\* clear_display()
ClearDisplayResult == [r \in 0 .. DataRows - 1 |-> [c \in 0 .. ROW_LENGTH - 1 |-> ZeroCell]]

(* ------------------------------------------------------------------ *)
(* Port words                                                           *)
(* ------------------------------------------------------------------ *)
\* w & mask != 0, for a one-bit mask
Has(w, mask) == (w \div mask) % 2 = 1

\* w |= mask, for a one-bit mask
Or(w, mask) == IF Has(w, mask) THEN w ELSE w + mask

\* w &= !mask, for a one-bit mask
AndNot(w, mask) == IF Has(w, mask) THEN w - mask ELSE w

\* the address word built from the row counter: lines a, b, c
Address(count) ==
      (IF (count \div 1) % 2 # 0 THEN PINS.a ELSE 0)
    + (IF (count \div 2) % 2 # 0 THEN PINS.b ELSE 0)
    + (IF (count \div 4) % 2 # 0 THEN PINS.c ELSE 0)

\* the colour bits of a strict comparison duty > brightness
ColorBitsPwmStrict(element, brightness) ==
      (IF element[1] > brightness THEN PINS.r1 ELSE 0)
    + (IF element[2] > brightness THEN PINS.g1 ELSE 0)
    + (IF element[3] > brightness THEN PINS.b1 ELSE 0)
    + (IF element[4] > brightness THEN PINS.r2 ELSE 0)
    + (IF element[5] > brightness THEN PINS.g2 ELSE 0)
    + (IF element[6] > brightness THEN PINS.b2 ELSE 0)

\* output_single: the colour bits added to output_buffer for one element
ColorBitsPwm(element, brightness) ==
      (IF element[1] >= brightness THEN PINS.r1 ELSE 0)
    + (IF element[2] >= brightness THEN PINS.g1 ELSE 0)
    + (IF element[3] >= brightness THEN PINS.b1 ELSE 0)
    + (IF element[4] >= brightness THEN PINS.r2 ELSE 0)
    + (IF element[5] >= brightness THEN PINS.g2 ELSE 0)
    + (IF element[6] >= brightness THEN PINS.b2 ELSE 0)

\* output_single_bcm: the colour bits, with mask = 1 << bit
ColorBitsBcm(element, bit) ==
      (IF (element[1] \div 2 ^ bit) % 2 # 0 THEN PINS.r1 ELSE 0)
    + (IF (element[2] \div 2 ^ bit) % 2 # 0 THEN PINS.g1 ELSE 0)
    + (IF (element[3] \div 2 ^ bit) % 2 # 0 THEN PINS.b1 ELSE 0)
    + (IF (element[4] \div 2 ^ bit) % 2 # 0 THEN PINS.r2 ELSE 0)
    + (IF (element[5] \div 2 ^ bit) % 2 # 0 THEN PINS.g2 ELSE 0)
    + (IF (element[6] \div 2 ^ bit) % 2 # 0 THEN PINS.b2 ELSE 0)

\* number of port writes output_single makes for one row
RowLenPwm == 2 * ROW_LENGTH + 4

\* output_single: the j-th word (1-based) written while scanning row
\* number count, whose cells are row
RowWordPwm(row, count, brightness, j) ==
    LET address == 0
        shifted(c) == PINS.latch + address + ColorBitsPwm(row[c], brightness)
        last == shifted(ROW_LENGTH - 1)
        disabled == (last + PINS.oe) - PINS.latch
        latched == disabled + PINS.latch
        addressed == latched + Address(count)
    IN  IF j <= 2 * ROW_LENGTH
        THEN IF j % 2 = 1
             THEN shifted((j - 1) \div 2) + PINS.clock
             ELSE (shifted((j - 1) \div 2) + PINS.clock) - PINS.clock
        ELSE CASE j = 2 * ROW_LENGTH + 1 -> disabled
               [] j = 2 * ROW_LENGTH + 2 -> latched
               [] j = 2 * ROW_LENGTH + 3 -> addressed
               [] OTHER -> addressed - PINS.oe

\* output_single: all the words of one full-frame pass, row after row
PassWritesPwm(d, brightness) ==
    [i \in 1 .. DataRows * RowLenPwm |->
        RowWordPwm(d[(i - 1) \div RowLenPwm], (i - 1) \div RowLenPwm,
                   brightness, ((i - 1) % RowLenPwm) + 1)]

\* number of port writes output_single_bcm makes for one row
RowLenBcm == 2 * ROW_LENGTH + 3

\* output_single_bcm: the j-th word (1-based) written while scanning row
\* number count; address is PINS.oe before the first row and the previous
\* row's address afterwards
RowWordBcm(row, count, bit, j) ==
    LET address == IF count = 0 THEN PINS.oe ELSE Address(count - 1)
        shifted(c) == address + ColorBitsBcm(row[c], bit)
        last == shifted(ROW_LENGTH - 1)
        disabled == AndNot(Or(last, PINS.oe), PINS.latch)
        cleared == AndNot(AndNot(AndNot(Or(disabled, PINS.latch), PINS.a), PINS.b), PINS.c)
        addressed == cleared + Address(count)
    IN  IF j <= 2 * ROW_LENGTH
        THEN IF j % 2 = 1
             THEN shifted((j - 1) \div 2) + PINS.clock
             ELSE (shifted((j - 1) \div 2) + PINS.clock) - PINS.clock
        ELSE CASE j = 2 * ROW_LENGTH + 1 -> disabled
               [] j = 2 * ROW_LENGTH + 2 -> addressed
               [] OTHER -> AndNot(addressed, PINS.oe)

\* output_single_bcm: all the words of one full-frame pass; the last one
\* is written after the loop, with oe set again
PassWritesBcm(d, bit) ==
    [i \in 1 .. DataRows * RowLenBcm + 1 |->
        IF i = DataRows * RowLenBcm + 1
        THEN Or(RowWordBcm(d[DataRows - 1], DataRows - 1, bit, RowLenBcm), PINS.oe)
        ELSE RowWordBcm(d[(i - 1) \div RowLenBcm], (i - 1) \div RowLenBcm,
                        bit, ((i - 1) % RowLenBcm) + 1)]

\* the word output_single leaves on the port
LastWordPwm(d, brightness) ==
    RowWordPwm(d[DataRows - 1], DataRows - 1, brightness, RowLenPwm)

\* the word output_single_bcm leaves on the port
LastWordBcm(d, bit) ==
    Or(RowWordBcm(d[DataRows - 1], DataRows - 1, bit, RowLenBcm), PINS.oe)

\* a.saturating_mul(b) on u8
SaturatingMul(a, b) == IF a * b > U8Max THEN U8Max ELSE a * b

\* the threshold without the + 1
ThresholdFromZero(brightness, step) == SaturatingMul(brightness, step)

\* output: the threshold of the iteration whose loop variable is brightness
Threshold(brightness, step) == SaturatingMul(brightness + 1, step)

\* a * b on u8: with overflow checks the product panics when it does not
\* fit, without them it wraps
MulU8(a, b) ==
    IF a * b <= U8Max
    THEN { [panic |-> FALSE, value |-> a * b] }
    ELSE { [panic |-> TRUE, value |-> 0],
           [panic |-> FALSE, value |-> (a * b) % 256] }

\* the plane without the shift
PlaneUnshifted(bit, bits) == bit

\* output_bcm: the plane scanned by the iteration whose loop variable is bit
Plane(bit, bits) == bit + (8 - bits)

(* ------------------------------------------------------------------ *)
(* State machine                                                        *)
(* ------------------------------------------------------------------ *)
Init ==
    /\ size_64x64 \in BOOLEAN
    /\ stripe_multiplexing \in BOOLEAN
    /\ ROW_LENGTH = IF stripe_multiplexing THEN StripeRowLength ELSE PlainRowLength
    /\ engine = "none"
    /\ panicked = FALSE
    /\ data = << >>
    /\ brightness_step = 0
    /\ brightness_count = 0
    /\ brightness_bits = 0
    /\ output_port = 0
    /\ written = FALSE
    /\ pc = "idle"
    /\ iter = 0
    /\ delay_base_us = 0
    /\ thresholds = << >>
    /\ planes = << >>
    /\ dwells = << >>
    /\ trace = << >>
    /\ lastCall = [op |-> "none"]
    /\ calls = 0

\* Hub75::new(brightness_bits, output_port)
New(b) ==
    /\ engine = "none"
    /\ lastCall' = [op |-> "new", brightness_bits |-> b]
    /\ IF NewAccepts(b)
       THEN /\ engine' = "built"
            /\ data' = ZeroData
            /\ brightness_step' = BrightnessStep(b)
            /\ brightness_count' = BrightnessCount(b)
            /\ brightness_bits' = b
            /\ UNCHANGED panicked
       ELSE /\ engine' = "failed"
            /\ panicked' = TRUE
            /\ UNCHANGED << data, fields >>
    /\ UNCHANGED << build, output_port, written, cycle, trace, calls >>

\* the engine exists and no call is in progress
Callable == engine = "built" /\ ~panicked /\ pc = "idle" /\ calls < MaxCalls

\* a call that writes nothing to the port and runs no cycle
NoOutput ==
    /\ thresholds' = << >>
    /\ planes' = << >>
    /\ dwells' = << >>
    /\ trace' = << >>
    /\ UNCHANGED << build, engine, fields, output_port, written, pc, iter, delay_base_us >>

\* DrawTarget::draw_pixel(Pixel(coord, color))
DrawPixel(coord, color) ==
    /\ Callable
    /\ calls' = calls + 1
    /\ lastCall' = [op |-> "draw_pixel", coord |-> coord, color |-> color]
    /\ LET res == DrawPixelResult(data, coord, color)
       IN  data' = res.data /\ panicked' = res.panic
    /\ NoOutput

\* DrawTarget::draw_iter(pixels)
DrawIter(pixels) ==
    /\ Callable
    /\ calls' = calls + 1
    /\ lastCall' = [op |-> "draw_iter", pixels |-> pixels]
    /\ LET res == DrawIterResult(data, pixels)
       IN  data' = res.data /\ panicked' = res.panic
    /\ NoOutput

\* DrawTarget::clear(color)
Clear(color) ==
    /\ Callable
    /\ calls' = calls + 1
    /\ lastCall' = [op |-> "clear", color |-> color]
    /\ data' = ClearResult(color)
    /\ UNCHANGED panicked
    /\ NoOutput

\* Hub75::clear_display()
ClearDisplay ==
    /\ Callable
    /\ calls' = calls + 1
    /\ lastCall' = [op |-> "clear_display"]
    /\ data' = ClearDisplayResult
    /\ UNCHANGED panicked
    /\ NoOutput

\* Hub75::output_single(delay, brightness), called directly
OutputSingle(brightness) ==
    /\ Callable
    /\ calls' = calls + 1
    /\ lastCall' = [op |-> "output_single", brightness |-> brightness]
    /\ trace' = PassWritesPwm(data, brightness)
    /\ output_port' = trace'[Len(trace')]
    /\ written' = TRUE
    /\ thresholds' = << >>
    /\ planes' = << >>
    /\ dwells' = << >>
    /\ UNCHANGED << build, engine, panicked, data, fields, pc, iter, delay_base_us >>

\* Hub75::output_single_bcm(delay, bit), called directly
OutputSingleBcm(bit) ==
    /\ Callable
    /\ calls' = calls + 1
    /\ lastCall' = [op |-> "output_single_bcm", bit |-> bit]
    /\ trace' = PassWritesBcm(data, bit)
    /\ output_port' = trace'[Len(trace')]
    /\ written' = TRUE
    /\ thresholds' = << >>
    /\ planes' = << >>
    /\ dwells' = << >>
    /\ UNCHANGED << build, engine, panicked, data, fields, pc, iter, delay_base_us >>

\* Hub75::output(delay): entry
OutputStart ==
    /\ Callable
    /\ calls' = calls + 1
    /\ lastCall' = [op |-> "output"]
    /\ pc' = "output"
    /\ iter' = 0
    /\ thresholds' = << >>
    /\ planes' = << >>
    /\ dwells' = << >>
    /\ trace' = << >>
    /\ UNCHANGED << build, engine, panicked, data, fields, output_port, written,
                    delay_base_us >>

\* Hub75::output: one iteration of the PWM cycle, a call of output_single
OutputPass ==
    /\ pc = "output"
    /\ ~panicked
    /\ iter < brightness_count
    /\ LET brightness == Threshold(iter, brightness_step)
       IN  /\ thresholds' = Append(thresholds, brightness)
           /\ output_port' = LastWordPwm(data, brightness)
    /\ written' = TRUE
    /\ iter' = iter + 1
    /\ UNCHANGED << build, engine, panicked, data, fields, pc, delay_base_us,
                    planes, dwells, trace, lastCall, calls >>

\* Hub75::output: the loop is over
OutputReturn ==
    /\ pc = "output"
    /\ ~panicked
    /\ iter >= brightness_count
    /\ pc' = "idle"
    /\ UNCHANGED << build, engine, panicked, data, fields, output_port, written,
                    iter, delay_base_us, thresholds, planes, dwells, trace,
                    lastCall, calls >>

\* Hub75::output_bcm(delay, delay_base_us): entry
OutputBcmStart(base) ==
    /\ Callable
    /\ calls' = calls + 1
    /\ lastCall' = [op |-> "output_bcm", delay_base_us |-> base]
    /\ pc' = "output_bcm"
    /\ iter' = 0
    /\ delay_base_us' = base
    /\ thresholds' = << >>
    /\ planes' = << >>
    /\ dwells' = << >>
    /\ trace' = << >>
    /\ UNCHANGED << build, engine, panicked, data, fields, output_port, written >>

\* Hub75::output_bcm: one iteration, a call of output_single_bcm and the
\* dwell delay after it
OutputBcmPass ==
    /\ pc = "output_bcm"
    /\ ~panicked
    /\ iter < brightness_bits
    /\ planes' = Append(planes, Plane(iter, brightness_bits))
    /\ output_port' = LastWordBcm(data, Plane(iter, brightness_bits))
    /\ written' = TRUE
    /\ \E product \in MulU8(delay_base_us, 2 ^ iter) :
          IF product.panic
          THEN /\ panicked' = TRUE
               /\ UNCHANGED << dwells, iter >>
          ELSE /\ dwells' = Append(dwells, product.value)
               /\ iter' = iter + 1
               /\ UNCHANGED panicked
    /\ UNCHANGED << build, engine, data, fields, pc, delay_base_us, thresholds,
                    trace, lastCall, calls >>

\* Hub75::output_bcm: the loop is over
OutputBcmReturn ==
    /\ pc = "output_bcm"
    /\ ~panicked
    /\ iter >= brightness_bits
    /\ pc' = "idle"
    /\ UNCHANGED << build, engine, panicked, data, fields, output_port, written,
                    iter, delay_base_us, thresholds, planes, dwells, trace,
                    lastCall, calls >>

\* the framebuffer and the single full-frame passes
Next ==
    \/ \E b \in SomeBits : New(b)
    \/ \E pixel \in Pixels : DrawPixel(pixel.coord, pixel.color)
    \/ \E pixels \in IterInputs : DrawIter(pixels)
    \/ \E color \in Colors : Clear(color)
    \/ ClearDisplay
    \/ \E brightness \in Brightnesses : OutputSingle(brightness)
    \/ \E bit \in Bits : OutputSingleBcm(bit)

Spec == Init /\ [][Next]_vars

\* construction with every brightness_bits and the two refresh cycles
NextCycle ==
    \/ \E b \in AllBits : New(b)
    \/ \E color \in Colors : Clear(color)
    \/ ClearDisplay
    \/ OutputStart
    \/ OutputPass
    \/ OutputReturn
    \/ \E base \in DelayBases : OutputBcmStart(base)
    \/ OutputBcmPass
    \/ OutputBcmReturn

SpecCycle == Init /\ [][NextCycle]_vars

(* ------------------------------------------------------------------ *)
(* Vocabulary of the properties                                         *)
(* ------------------------------------------------------------------ *)
\* the step is one call of the named API function
IsCall(op) == calls' = calls + 1 /\ lastCall'.op = op

\* the coordinate lies inside the logical panel reported by size()
InPanel(coord) ==
    /\ 0 <= coord[1] /\ coord[1] < size.width
    /\ 0 <= coord[2] /\ coord[2] < size.height

InPanelPixel(pixel) == InPanel(pixel.coord)

\* the gamma-corrected triple of a colour, read from the table itself
Corrected(color) ==
    << GAMMA8[color[1] + 1], GAMMA8[color[2] + 1], GAMMA8[color[3] + 1] >>

TopHalf(cell) == << cell[1], cell[2], cell[3] >>
BottomHalf(cell) == << cell[4], cell[5], cell[6] >>

Cells == (0 .. DataRows - 1) \X (0 .. ROW_LENGTH - 1)

\* the cell with one half replaced by a triple
WithTop(cell, t) == << t[1], t[2], t[3], cell[4], cell[5], cell[6] >>
WithBottom(cell, t) == << cell[1], cell[2], cell[3], t[1], t[2], t[3] >>

(* ------------------------------------------------------------------ *)
(* C1                                                                   *)
(* ------------------------------------------------------------------ *)
\* C1: new succeeds exactly for brightness_bits in 1..8; a rejected
\* construction leaves no engine and no word on the port, and a word is
\* only ever written by an engine whose brightness_bits is in 1..8.
C1_ConstructionValidated ==
    /\ lastCall.op = "new" =>
          (lastCall.brightness_bits \in 1 .. 8 <=> engine = "built")
    /\ lastCall.op = "new" =>
          (lastCall.brightness_bits \notin 1 .. 8 <=> engine = "failed")
    /\ engine = "built" => brightness_bits \in 1 .. 8
    /\ engine = "failed" => data = << >> /\ ~written /\ pc = "idle" /\ calls = 0
    /\ (written \/ pc # "idle") => engine = "built" /\ brightness_bits \in 1 .. 8

C1_Witness ==
    /\ engine = "failed"
    /\ lastCall.brightness_bits = 9
    /\ ~written

(* ------------------------------------------------------------------ *)
(* C2                                                                   *)
(* ------------------------------------------------------------------ *)
\* the cells whose six values differ before and after the step
ChangedCells == { rc \in Cells : data'[rc[1]][rc[2]] # data[rc[1]][rc[2]] }

\* one half of the cell now holds the triple and its other half is as before
OneHalfStored(rc, t) ==
    \/ data'[rc[1]][rc[2]] = WithTop(data[rc[1]][rc[2]], t)
    \/ data'[rc[1]][rc[2]] = WithBottom(data[rc[1]][rc[2]], t)

\* C2: draw_pixel at a coordinate inside the panel stores exactly the
\* gamma-corrected colour into one half of one cell and changes nothing else.
C2_DrawStoresCorrected ==
    [][(IsCall("draw_pixel") /\ InPanel(lastCall'.coord)) =>
          /\ ~panicked'
          /\ Cardinality(ChangedCells) <= 1
          /\ \E rc \in (IF ChangedCells = {} THEN Cells ELSE ChangedCells) :
                OneHalfStored(rc, Corrected(lastCall'.color))]_vars

C2_Witness ==
    /\ lastCall.op = "draw_pixel"
    /\ lastCall.coord = << 3, 5 >>
    /\ lastCall.color = << 255, 128, 7 >>
    /\ \E rc \in Cells : data[rc[1]][rc[2]] = << 255, 37, 0, 5, 0, 129 >>

(* ------------------------------------------------------------------ *)
(* C3                                                                   *)
(* ------------------------------------------------------------------ *)
\* C3: draw_pixel at a coordinate outside the panel returns without a
\* panic and leaves the framebuffer as it was; draw_iter skips such pixels
\* and applies the others.
C3_OutsideIgnored ==
    [][/\ (IsCall("draw_pixel") /\ ~InPanel(lastCall'.coord)) =>
             (~panicked' /\ data' = data)
       /\ IsCall("draw_iter") =>
             /\ ~panicked'
             /\ data' = DrawIterResult(data,
                            SelectSeq(lastCall'.pixels, InPanelPixel)).data
             /\ (\A i \in 1 .. Len(lastCall'.pixels) :
                    ~InPanelPixel(lastCall'.pixels[i])) => data' = data]_vars

C3_Witness ==
    /\ stripe_multiplexing
    /\ lastCall.op = "draw_iter"
    /\ Len(lastCall.pixels) = 2
    /\ ~InPanelPixel(lastCall.pixels[1])
    /\ InPanelPixel(lastCall.pixels[2])
    /\ data # ZeroData
    /\ ~panicked

(* ------------------------------------------------------------------ *)
(* C4                                                                   *)
(* ------------------------------------------------------------------ *)
\* C4: in the non-multiplexed builds draw_pixel inside the panel writes the
\* cell of buffer-row y mod scan_rows and buffer-column x, its top half if
\* y < scan_rows and its bottom half otherwise.
C4_PlainMapping ==
    [][(IsCall("draw_pixel") /\ ~stripe_multiplexing /\ InPanel(lastCall'.coord)) =>
          LET x == lastCall'.coord[1]
              y == lastCall'.coord[2]
              t == Corrected(lastCall'.color)
          IN  data' = [data EXCEPT ![y % NUM_ROWS][x] =
                         IF y < NUM_ROWS THEN WithTop(@, t) ELSE WithBottom(@, t)]]_vars

(* ------------------------------------------------------------------ *)
(* C5                                                                   *)
(* ------------------------------------------------------------------ *)
\* C5: in the stripe-multiplexed builds draw_pixel inside the panel writes
\* buffer-column x + 32*(x div 32) + (32 if (y mod NUM_ROWS) < NUM_ROWS/2)
\* of buffer-row y mod (NUM_ROWS/2); with NUM_ROWS = 16, pixel (40,5) goes
\* to column 104 of row 5, top half.
C5_StripeMapping ==
    [][(IsCall("draw_pixel") /\ stripe_multiplexing /\ InPanel(lastCall'.coord)) =>
          LET x == lastCall'.coord[1]
              y == lastCall'.coord[2]
              t == Corrected(lastCall'.color)
              column == x + 32 * (x \div 32)
                          + (IF (y % NUM_ROWS) < NUM_ROWS \div 2 THEN 32 ELSE 0)
              row == y % (NUM_ROWS \div 2)
          IN  /\ ~panicked'
              /\ \/ data' = [data EXCEPT ![row][column] = WithTop(@, t)]
                 \/ data' = [data EXCEPT ![row][column] = WithBottom(@, t)]
              /\ (NUM_ROWS = 16 /\ x = 40 /\ y = 5) =>
                    data' = [data EXCEPT ![5][104] = WithTop(@, t)]]_vars

C5_Witness ==
    /\ stripe_multiplexing
    /\ NUM_ROWS = 16
    /\ lastCall.op = "draw_pixel"
    /\ lastCall.coord = << 40, 5 >>
    /\ TopHalf(data[5][104]) = << 255, 37, 0 >>

(* ------------------------------------------------------------------ *)
(* C6                                                                   *)
(* ------------------------------------------------------------------ *)
\* C6: one call of output runs 2^b - 1 passes; the i-th threshold is
\* min(255, i * 2^(8-b)) counting from 1; the thresholds increase strictly
\* and the product never exceeds 255, so it is never saturated.
C6_ThresholdSequence ==
    lastCall.op = "output" =>
        LET b == brightness_bits
            step == 2 ^ (8 - b)
        IN  /\ Len(thresholds) <= 2 ^ b - 1
            /\ (pc = "idle" => Len(thresholds) = 2 ^ b - 1)
            /\ \A i \in 1 .. Len(thresholds) :
                  /\ thresholds[i] = (IF i * step > 255 THEN 255 ELSE i * step)
                  /\ i * step <= 255
                  /\ i > 1 => thresholds[i - 1] < thresholds[i]

C6_Witness ==
    /\ lastCall.op = "output"
    /\ pc = "idle"
    /\ brightness_bits = 3
    /\ thresholds = << 32, 64, 96, 128, 160, 192, 224 >>

C8_DwellDoubles ==
    lastCall.op = "output_bcm" =>
        /\ ~panicked
        /\ Len(dwells) = Len(planes)
        /\ \A i \in 1 .. Len(dwells) :
              /\ dwells[i] = delay_base_us * 2 ^ (planes[i] - (8 - brightness_bits))
              /\ i > 1 => dwells[i] = 2 * dwells[i - 1]

(* ------------------------------------------------------------------ *)
(* C9, C10                                                              *)
(* ------------------------------------------------------------------ *)
\* the latest call is a full-frame pass whose words are in trace
PassRecorded == lastCall.op \in { "output_single", "output_single_bcm" }

\* number of words the recorded pass wrote per row
RowLen == IF lastCall.op = "output_single" THEN RowLenPwm ELSE RowLenBcm

\* the j-th word (1-based) written while row k was scanned
RowWord(k, j) == trace[k * RowLen + j]

\* the number on the address lines, least significant bit on line a
AddrValue(w) ==
      (IF Has(w, PINS.a) THEN 1 ELSE 0)
    + (IF Has(w, PINS.b) THEN 2 ELSE 0)
    + (IF Has(w, PINS.c) THEN 4 ELSE 0)

\* the order of the writes of row k: ROW_LENGTH clock pulses, then output
\* disabled, latch low then high, the address addr not before the latch is
\* high, and output enabled again by the last write, with no clock pulse
\* after the disable
RowOrder(k, addr) ==
    LET d == 2 * ROW_LENGTH + 1
    IN  /\ \A c \in 0 .. ROW_LENGTH - 1 :
              /\ Has(RowWord(k, 2 * c + 1), PINS.clock)
              /\ ~Has(RowWord(k, 2 * c + 2), PINS.clock)
        /\ \A j \in d .. RowLen : ~Has(RowWord(k, j), PINS.clock)
        /\ \A j \in d .. RowLen - 1 : Has(RowWord(k, j), PINS.oe)
        /\ ~Has(RowWord(k, RowLen), PINS.oe)
        /\ \E lo, hi, ad \in d .. RowLen - 1 :
              /\ lo < hi
              /\ hi <= ad
              /\ ~Has(RowWord(k, lo), PINS.latch)
              /\ \A j \in hi .. RowLen : Has(RowWord(k, j), PINS.latch)
              /\ \A j \in ad .. RowLen : AddrValue(RowWord(k, j)) = addr

\* C9: per scanned row the writes are ROW_LENGTH clock pulses, output
\* disabled, latch low then high, the address lines set to the row index
\* not before the latch has risen, output enabled again.
C9_RowProtocol ==
    PassRecorded => \A k \in 0 .. DataRows - 1 : RowOrder(k, k)

\* C10: the address written after row k is latched is k in binary, least
\* significant bit on line a, so no two scanned rows share an address.
C10_AddressIsRowIndex ==
    PassRecorded =>
        /\ \A k \in 0 .. DataRows - 1 : AddrValue(RowWord(k, RowLen)) = k
        /\ \A k1, k2 \in 0 .. DataRows - 1 :
              k1 # k2 => AddrValue(RowWord(k1, RowLen)) # AddrValue(RowWord(k2, RowLen))

(* ------------------------------------------------------------------ *)
(* C11                                                                  *)
(* ------------------------------------------------------------------ *)
\* the values of the gamma table
GammaValues == { GAMMA8[i] : i \in 1 .. 256 }

\* the triples a half can hold: the zeros of new and clear_display, or an
\* input colour corrected exactly once
OnceCorrected == { << 0, 0, 0 >> } \cup { Corrected(color) : color \in Colors }

\* C11: after any sequence of new, draw_pixel, draw_iter, clear and
\* clear_display every duty value is a value of the gamma table, and every
\* half holds zeros or an input colour corrected exactly once.
C11_OnlyCorrectedValues ==
    engine = "built" =>
        \A rc \in Cells :
            /\ \A i \in 1 .. 6 : data[rc[1]][rc[2]][i] \in GammaValues
            /\ TopHalf(data[rc[1]][rc[2]]) \in OnceCorrected
            /\ BottomHalf(data[rc[1]][rc[2]]) \in OnceCorrected

C11_Witness ==
    /\ lastCall.op = "draw_pixel"
    /\ lastCall.color = << 64, 0, 200 >>
    /\ calls = 2
    /\ \E rc \in Cells : data[rc[1]][rc[2]] = << 255, 37, 0, 5, 0, 129 >>
    /\ \E rc \in Cells : data[rc[1]][rc[2]] = << 255, 37, 0, 255, 37, 0 >>

(* ------------------------------------------------------------------ *)
(* C12                                                                  *)
(* ------------------------------------------------------------------ *)
\* C12: after clear(color), in the plain and in the stripe-multiplexed
\* build and whatever the framebuffer held before, every cell of every row
\* and column holds the corrected colour twice.
C12_ClearFillsEveryCell ==
    lastCall.op = "clear" =>
        \A rc \in Cells :
            /\ TopHalf(data[rc[1]][rc[2]]) = Corrected(lastCall.color)
            /\ BottomHalf(data[rc[1]][rc[2]]) = Corrected(lastCall.color)

\* clear(64, 0, 200) as the second call, in a stripe-multiplexed build
C12_Witness ==
    /\ lastCall.op = "clear"
    /\ lastCall.color = << 64, 0, 200 >>
    /\ calls = 2
    /\ stripe_multiplexing
    /\ data[DataRows - 1][ROW_LENGTH - 1] = << 5, 0, 129, 5, 0, 129 >>

(* ------------------------------------------------------------------ *)
(* C13                                                                  *)
(* ------------------------------------------------------------------ *)
\* C13: after clear_display() every duty value of every cell is 0, whatever
\* the framebuffer held before; a clear_display() that directly follows
\* another one leaves the framebuffer as it was.
C13_ClearDisplayZeroes ==
    [][IsCall("clear_display") =>
          /\ \A rc \in Cells : \A i \in 1 .. 6 : data'[rc[1]][rc[2]][i] = 0
          /\ lastCall.op = "clear_display" => data' = data]_vars

\* clear_display() as the second call over a zero framebuffer
C13_Witness ==
    /\ lastCall.op = "clear_display"
    /\ calls = 2
    /\ \A rc \in Cells : data[rc[1]][rc[2]] = << 0, 0, 0, 0, 0, 0 >>

(* ------------------------------------------------------------------ *)
(* C14                                                                  *)
(* ------------------------------------------------------------------ *)
\* C14: in a full-frame pass, PWM or BCM, two consecutive port writes that
\* both have output enabled (OE clear) carry the same address bits: the
\* address lines change only while output is disabled.
C14_AddressStableWhileEnabled ==
    PassRecorded =>
        \A i \in 1 .. Len(trace) - 1 :
            (~Has(trace[i], PINS.oe) /\ ~Has(trace[i + 1], PINS.oe)) =>
                AddrValue(trace[i]) = AddrValue(trace[i + 1])

(* ------------------------------------------------------------------ *)
(* C15                                                                  *)
(* ------------------------------------------------------------------ *)
\* C15: when output() has returned after its brightness_count iterations,
\* the last word written to the port has OE set: the port is left with
\* output disabled.
C15_LeftDisabledOnReturn ==
    (lastCall.op = "output" /\ pc = "idle" /\ Len(thresholds) >= 1) =>
        Has(output_port, PINS.oe)

(* ------------------------------------------------------------------ *)
(* C16                                                                  *)
(* ------------------------------------------------------------------ *)
\* in the words written for row k after its columns are shifted, output
\* stays disabled up to a write that clears OE, and a write before that one
\* has put addr on the address lines, still there when OE is cleared
EnabledAfterAddress(k, addr) ==
    \E ad, clr \in 2 * ROW_LENGTH + 1 .. RowLen :
        /\ ad < clr
        /\ AddrValue(RowWord(k, ad)) = addr
        /\ \A j \in 2 * ROW_LENGTH + 1 .. clr - 1 : Has(RowWord(k, j), PINS.oe)
        /\ ~Has(RowWord(k, clr), PINS.oe)
        /\ AddrValue(RowWord(k, clr)) = addr

\* C16: in a BCM plane every write made while the columns of the first row
\* are shifted has OE set, and for every row the write that clears OE comes
\* only after the write that set the address lines to the row's index.
C16_BcmEnableOrder ==
    lastCall.op = "output_single_bcm" =>
        /\ \A j \in 1 .. 2 * ROW_LENGTH : Has(RowWord(0, j), PINS.oe)
        /\ \A k \in 0 .. DataRows - 1 : EnabledAfterAddress(k, k)

(* ------------------------------------------------------------------ *)
(* C17                                                                  *)
(* ------------------------------------------------------------------ *)
\* C17: the dwell delay after the scan of a plane is spent with output
\* enabled: the last word written before the delay has OE clear.
C17_DwellDisplayed ==
    (lastCall.op = "output_bcm" /\ Len(dwells) >= 1) =>
        ~Has(output_port, PINS.oe)

(* ------------------------------------------------------------------ *)
(* C18                                                                  *)
(* ------------------------------------------------------------------ *)
\* the masks of the colour pins, in the order of the fields of a cell
ColorPins == << PINS.r1, PINS.g1, PINS.b1, PINS.r2, PINS.g2, PINS.b2 >>

\* the bit the recorded pass must emit for a duty value
Lit(duty) ==
    IF lastCall.op = "output_single"
    THEN duty >= lastCall.brightness
    ELSE (duty \div 2 ^ lastCall.bit) % 2 = 1

\* C18: in a full-frame pass, for every row and column, colour pin i of the
\* clock-high word and of the clock-low word of the column is set exactly
\* when field i of the cell is lit (duty >= threshold in a PWM pass, bit p
\* of the duty set in a BCM pass); nothing of another column is in the word.
C18_ColourBitsFromCell ==
    PassRecorded =>
        \A rc \in Cells : \A i \in 1 .. 6 :
            /\ Has(RowWord(rc[1], 2 * rc[2] + 1), ColorPins[i])
                  <=> Lit(data[rc[1]][rc[2]][i])
            /\ Has(RowWord(rc[1], 2 * rc[2] + 2), ColorPins[i])
                  <=> Lit(data[rc[1]][rc[2]][i])

\* output_single(37) after draw_pixel((3, 5), (255, 128, 7)) in a plain
\* build: green, stored as 37, is lit in column 3 of row 5, blue is not,
\* and the columns before and after carry no colour
C18_Witness ==
    /\ lastCall.op = "output_single"
    /\ lastCall.brightness = 37
    /\ ~stripe_multiplexing
    /\ data[5][3] = << 255, 37, 0, 0, 0, 0 >>
    /\ Has(RowWord(5, 7), PINS.r1)
    /\ Has(RowWord(5, 7), PINS.g1)
    /\ Has(RowWord(5, 8), PINS.g1)
    /\ ~Has(RowWord(5, 7), PINS.b1)
    /\ ~Has(RowWord(5, 5), PINS.g1)
    /\ ~Has(RowWord(6, 1), PINS.g1)

(* ------------------------------------------------------------------ *)
(* C19: stripe-multiplexed builds of other row lengths                  *)
(* ------------------------------------------------------------------ *)
\* the values of the const generic ROW_LENGTH tried: 32, 64, 96
StripeRowLengths == { StripeWidth * n : n \in 1 .. MaxStripes }

InitLen ==
    /\ size_64x64 \in BOOLEAN
    /\ stripe_multiplexing = TRUE
    /\ ROW_LENGTH \in StripeRowLengths
    /\ engine = "none"
    /\ panicked = FALSE
    /\ data = << >>
    /\ brightness_step = 0
    /\ brightness_count = 0
    /\ brightness_bits = 0
    /\ output_port = 0
    /\ written = FALSE
    /\ pc = "idle"
    /\ iter = 0
    /\ delay_base_us = 0
    /\ thresholds = << >>
    /\ planes = << >>
    /\ dwells = << >>
    /\ trace = << >>
    /\ lastCall = [op |-> "none"]
    /\ calls = 0

\* construction and single pixel writes
NextLen ==
    \/ \E b \in SomeBits : New(b)
    \/ \E pixel \in Pixels : DrawPixel(pixel.coord, pixel.color)

SpecLen == InitLen /\ [][NextLen]_vars

\* C19: in the stripe-multiplexed build, for every ROW_LENGTH, a pixel
\* whose coordinate passes the bounds check (0 <= x < ROW_LENGTH / 2,
\* 0 <= y < 2 * NUM_ROWS) is stored at a column below ROW_LENGTH and a row
\* below NUM_ROWS / 2: the write never indexes outside the framebuffer.
C19_AcceptedWriteInBuffer ==
    (stripe_multiplexing /\ lastCall.op = "draw_pixel" /\ InPanel(lastCall.coord)) =>
        /\ StripeColumn(lastCall.coord[1], lastCall.coord[2]) < ROW_LENGTH
        /\ StripeRow(lastCall.coord[2]) < NUM_ROWS \div 2
        /\ ~panicked

(* ------------------------------------------------------------------ *)
(* C20                                                                  *)
(* ------------------------------------------------------------------ *)
\* C20: in every build, two different pixels inside the panel never share
\* a half of a cell: when a pixel has been written into an empty
\* framebuffer and a pixel at another coordinate is written next, every
\* half that held a colour still holds it.
C20_WritesDoNotCollide ==
    [][(/\ calls = 1
        /\ lastCall.op = "draw_pixel"
        /\ InPanel(lastCall.coord)
        /\ IsCall("draw_pixel")
        /\ InPanel(lastCall'.coord)
        /\ lastCall'.coord # lastCall.coord) =>
            \A rc \in Cells :
                /\ TopHalf(data[rc[1]][rc[2]]) # << 0, 0, 0 >> =>
                      TopHalf(data'[rc[1]][rc[2]]) = TopHalf(data[rc[1]][rc[2]])
                /\ BottomHalf(data[rc[1]][rc[2]]) # << 0, 0, 0 >> =>
                      BottomHalf(data'[rc[1]][rc[2]]) = BottomHalf(data[rc[1]][rc[2]])]_vars

====
